---------------------------- MODULE Spec2Model ----------------------------
(***************************************************************************)
(* certstreamScanner: the event-to-record pipeline of cert_monitor.py,     *)
(* the MongoDB access of db_manager.py and the read endpoint of            *)
(* flask_api.py.                                                           *)
(*                                                                         *)
(* Python strings are TLA+ strings: TLC evaluates Len, SubSeq, Head, Tail  *)
(* and \o on them, and SubSeq(s, i, i) is the one-character string at i.   *)
(* A Python value that may be missing is a tagged record: [k |-> "absent"] *)
(* is a key that is not in the dict, [k |-> "null"] is None, and           *)
(* [k |-> "val", v |-> x] is the value x.                                  *)
(***************************************************************************)
EXTENDS Integers, Sequences, FiniteSets, TLC

(***************************************************************************)
(* Python string primitives                                                *)
(***************************************************************************)
UpperChars == "ABCDEFGHIJKLMNOPQRSTUVWXYZ"

LowerChars == "abcdefghijklmnopqrstuvwxyz"

Whitespace == {" ", "\t", "\n"}

CharAt(s, i) == SubSeq(s, i, i)

\* str.startswith
StartsWith(s, pre) ==
    /\ Len(pre) <= Len(s)
    /\ SubSeq(s, 1, Len(pre)) = pre

\* str.endswith
EndsWith(s, suf) ==
    /\ Len(suf) <= Len(s)
    /\ SubSeq(s, Len(s) - Len(suf) + 1, Len(s)) = suf

\* `sub in s` on strings
Contains(s, sub) ==
    \E i \in 1..(Len(s) - Len(sub) + 1) : SubSeq(s, i, i + Len(sub) - 1) = sub

LowerChar(c) ==
    IF \E i \in 1..Len(UpperChars) : CharAt(UpperChars, i) = c
    THEN CharAt(LowerChars, CHOOSE i \in 1..Len(UpperChars) : CharAt(UpperChars, i) = c)
    ELSE c

RECURSIVE Lower(_)
\* str.lower
Lower(s) == IF s = "" THEN "" ELSE LowerChar(Head(s)) \o Lower(Tail(s))

RECURSIVE LStripWs(_)
LStripWs(s) ==
    IF s # "" /\ Head(s) \in Whitespace THEN LStripWs(Tail(s)) ELSE s

RECURSIVE RStripWs(_)
RStripWs(s) ==
    IF s # "" /\ CharAt(s, Len(s)) \in Whitespace
    THEN RStripWs(SubSeq(s, 1, Len(s) - 1))
    ELSE s

\* str.strip
Strip(s) == RStripWs(LStripWs(s))

RECURSIVE LStripDots(_)
\* str.lstrip('.')
LStripDots(s) == IF s # "" /\ Head(s) = "." THEN LStripDots(Tail(s)) ELSE s

RECURSIVE SplitFrom(_, _, _)
\* the labels of s from position i on, cur being the label read so far
SplitFrom(s, i, cur) ==
    IF i > Len(s) THEN <<cur>>
    ELSE IF CharAt(s, i) = "." THEN <<cur>> \o SplitFrom(s, i + 1, "")
    ELSE SplitFrom(s, i + 1, cur \o CharAt(s, i))

\* str.split('.')
Split(s) == SplitFrom(s, 1, "")

RECURSIVE Join(_)
\* '.'.join(parts)
Join(parts) ==
    IF Len(parts) = 0 THEN ""
    ELSE IF Len(parts) = 1 THEN parts[1]
    ELSE parts[1] \o "." \o Join(Tail(parts))

\* parts[-n:]
LastN(parts, n) ==
    IF n >= Len(parts) THEN parts ELSE SubSeq(parts, Len(parts) - n + 1, Len(parts))

Range(f) == {f[i] : i \in DOMAIN f}


(***************************************************************************)
(* Python values that may be missing                                       *)
(***************************************************************************)
Absent == [k |-> "absent"]

Null == [k |-> "null"]

Val(x) == [k |-> "val", v |-> x]

\* None stored in a slot that otherwise holds a string
PyNone == "<None>"

\* dict.get(key, default): the default only when the key is not in the dict
Get(field, default) == IF field.k = "absent" THEN default ELSE field

\* the empty dict {} read as a leaf certificate or as the data object
EmptyCert == [all_domains |-> Absent, not_before |-> Absent, serial_number |-> Absent]

EmptyData == [leaf_cert |-> Absent, chain |-> Absent, seen_in |-> Absent]

(***************************************************************************)
(* Configuration (CertMonitor.__init__): static after startup              *)
(***************************************************************************)
Configs ==
    { [israeli_tld_suffixes |-> <<".co.il">>,
       exclude_suffixes |-> <<>>,
       blacklisted_domains |-> <<>>],
      [israeli_tld_suffixes |-> <<".co.il", ".il">>,
       exclude_suffixes |-> <<"gov">>,
       blacklisted_domains |-> <<"blocked.co.il">>] }

(***************************************************************************)
(* CertMonitor: cleaning, filter, base-domain extraction                   *)
(***************************************************************************)
_clean_domain(domain) ==
    LET d == IF StartsWith(domain, "*.") THEN SubSeq(domain, 3, Len(domain)) ELSE domain
    IN  Lower(Strip(d))

\* exclude_suffixes read as suffixes: the exclusion tested with endswith
is_target_excluding_suffix(cfg, domain_lower) ==
    /\ \E i \in DOMAIN cfg.israeli_tld_suffixes :
           EndsWith(domain_lower, cfg.israeli_tld_suffixes[i])
    /\ ~\E i \in DOMAIN cfg.exclude_suffixes :
           EndsWith(domain_lower, cfg.exclude_suffixes[i])
    /\ ~\E i \in DOMAIN cfg.blacklisted_domains :
           cfg.blacklisted_domains[i] = domain_lower

_is_target_domain(cfg, domain_lower) ==
    LET is_israeli_tld ==
            \E i \in DOMAIN cfg.israeli_tld_suffixes :
                EndsWith(domain_lower, cfg.israeli_tld_suffixes[i])
        is_excluded ==
            \E i \in DOMAIN cfg.exclude_suffixes :
                Contains(domain_lower, cfg.exclude_suffixes[i])
        is_blacklisted ==
            \E i \in DOMAIN cfg.blacklisted_domains :
                cfg.blacklisted_domains[i] = domain_lower
    IN  IF ~is_israeli_tld THEN FALSE
        ELSE IF is_excluded THEN FALSE
        ELSE IF is_blacklisted THEN FALSE
        ELSE TRUE

RECURSIVE ExtractFrom(_, _, _)
\* the loop of _extract_base_domain over the suffixes from position i on
ExtractFrom(cfg, domain, i) ==
    IF i > Len(cfg.israeli_tld_suffixes) THEN domain
    ELSE LET suffix == cfg.israeli_tld_suffixes[i]
             parts == Split(domain)
             needed_parts == Len(Split(LStripDots(suffix))) + 1
         IN  IF EndsWith(domain, suffix) /\ Len(parts) >= needed_parts
             THEN Join(LastN(parts, needed_parts))
             ELSE ExtractFrom(cfg, domain, i + 1)

\* the longest suffix the name ends with, whatever its place in the configuration
extract_base_longest_suffix(cfg, domain) ==
    LET suffixes == cfg.israeli_tld_suffixes
        hits == {i \in DOMAIN suffixes : EndsWith(domain, suffixes[i])}
    IN  IF hits = {} THEN domain
        ELSE LET i == CHOOSE i \in hits :
                          \A j \in hits : Len(suffixes[i]) >= Len(suffixes[j])
                 parts == Split(domain)
                 needed_parts == Len(Split(LStripDots(suffixes[i]))) + 1
             IN  IF Len(parts) >= needed_parts
                 THEN Join(LastN(parts, needed_parts))
                 ELSE domain

_extract_base_domain(cfg, domain) == ExtractFrom(cfg, domain, 1)

(***************************************************************************)
(* CertMonitor._format_message                                             *)
(***************************************************************************)
RECURSIVE StrLenNat(_)
\* len(str(n)) of a natural number
StrLenNat(n) == IF n < 10 THEN 1 ELSE 1 + StrLenNat(n \div 10)

\* len(str(n)) of an integer: a minus sign counts
StrLenInt(n) == IF n < 0 THEN 1 + StrLenNat(0 - n) ELSE StrLenNat(n)

\* Time is whole seconds since the epoch.  not_before / 1000.0 keeps the
\* sub-second part in Python; the model keeps the whole seconds.
TimeIssued(not_before, now) ==
    IF not_before.k # "val" \/ not_before.v = 0 THEN now
    ELSE IF StrLenInt(not_before.v) > 10 THEN not_before.v \div 1000
    ELSE not_before.v

Raised(exc) == [raised |-> TRUE, exc |-> exc]

\* a string slot read with .get(key, 'N/A')
StrOr(field, default) ==
    IF field.k = "absent" THEN default
    ELSE IF field.k = "null" THEN PyNone
    ELSE field.v

\* chain[0].get('subject', {}).get('CN', 'N/A'), or the exception it raises
IssuerOf(entry) ==
    IF entry.subject.k = "absent" THEN Val("N/A")
    ELSE IF entry.subject.k = "null" THEN Null
    ELSE Val(StrOr(entry.subject.v.CN, "N/A"))

_format_message(message, now) ==
    LET data == Get(message.data, Val(EmptyData))
    IN  IF data.k = "null" THEN Raised("AttributeError")
        ELSE
        LET cert == Get(data.v.leaf_cert, Val(EmptyCert))
        IN  IF cert.k = "null" THEN Raised("AttributeError")
            ELSE
            LET domain_names == Get(cert.v.all_domains, Val(<<>>))
                time_issued == TimeIssued(cert.v.not_before, now)
                chain == data.v.chain
                truthy == chain.k = "val" /\ Len(chain.v) > 0
                issuer == IF truthy THEN IssuerOf(chain.v[1]) ELSE Val("N/A")
                seen_in == Get(data.v.seen_in, Val(<<[name |-> Absent]>>))
            IN  IF issuer.k = "null" THEN Raised("AttributeError")
                ELSE IF seen_in.k = "null" THEN Raised("TypeError")
                ELSE IF Len(seen_in.v) = 0 THEN Raised("IndexError")
                ELSE [raised |-> FALSE,
                      domain_names |-> domain_names,
                      time_issued |-> time_issued,
                      issuer_cn |-> issuer.v,
                      log_name |-> StrOr(seen_in.v[1].name, "N/A"),
                      cert_id |-> StrOr(cert.v.serial_number, "N/A")]

(***************************************************************************)
(* CertMonitor.process_certificate: the filter loop building valid_domains *)
(* valid_domains is a dict in insertion order: a sequence of               *)
(* [base, subdomains] entries, subdomains a list that may repeat a name.   *)
(***************************************************************************)
HasBase(valid, base) == \E i \in DOMAIN valid : valid[i].base = base

\* without the test `clean != base`: the apex is listed among its own subdomains
AddNameWithApex(valid, base, clean) ==
    LET withBase == IF HasBase(valid, base) THEN valid
                    ELSE Append(valid, [base |-> base, subdomains |-> <<>>])
    IN  [i \in DOMAIN withBase |->
            IF withBase[i].base = base
            THEN [withBase[i] EXCEPT !.subdomains = Append(@, clean)]
            ELSE withBase[i]]

\* every subdomain listed under the first base domain of the event
AddNameToFirst(valid, base, clean) ==
    LET withBase == IF HasBase(valid, base) THEN valid
                    ELSE Append(valid, [base |-> base, subdomains |-> <<>>])
    IN  [i \in DOMAIN withBase |->
            IF i = 1 /\ clean # base
            THEN [withBase[i] EXCEPT !.subdomains = Append(@, clean)]
            ELSE withBase[i]]

\* the entry of a base domain made only when a subdomain of it is added
AddNameSubOnly(valid, base, clean) ==
    IF clean = base THEN valid
    ELSE LET withBase == IF HasBase(valid, base) THEN valid
                         ELSE Append(valid, [base |-> base, subdomains |-> <<>>])
         IN  [i \in DOMAIN withBase |->
                 IF withBase[i].base = base
                 THEN [withBase[i] EXCEPT !.subdomains = Append(@, clean)]
                 ELSE withBase[i]]

AddName(valid, base, clean) ==
    LET withBase == IF HasBase(valid, base) THEN valid
                    ELSE Append(valid, [base |-> base, subdomains |-> <<>>])
    IN  [i \in DOMAIN withBase |->
            IF withBase[i].base = base /\ clean # base
            THEN [withBase[i] EXCEPT !.subdomains = Append(@, clean)]
            ELSE withBase[i]]

RECURSIVE FilterLoop(_, _, _, _)
FilterLoop(cfg, names, i, valid) ==
    IF i > Len(names) THEN valid
    ELSE LET clean == _clean_domain(names[i])
         IN  IF ~_is_target_domain(cfg, clean)
             THEN FilterLoop(cfg, names, i + 1, valid)
             ELSE FilterLoop(cfg, names, i + 1,
                             AddName(valid, _extract_base_domain(cfg, clean), clean))

valid_domains(cfg, names) == FilterLoop(cfg, names, 1, <<>>)

(***************************************************************************)
(* Inputs: the events the ingestion source delivers                        *)
(***************************************************************************)
CertUpdate == "certificate_update"

Chain(cn) == Val(<<[subject |-> Val([CN |-> Val(cn)])]>>)

SeenIn(name) == Val(<<[name |-> Val(name)]>>)

Cert(names, not_before, serial) ==
    [all_domains |-> names, not_before |-> not_before, serial_number |-> serial]

Event(type, leaf, chain, seen_in) ==
    [message_type |-> type,
     data |-> Val([leaf_cert |-> leaf, chain |-> chain, seen_in |-> seen_in])]

\* the domain-name lists of the well-formed events
DomainLists ==
    { <<"*.mail.example.co.il", "example.co.il", "evil-example.co.il.attacker.com">>,
      <<"www.example.co.il">>,
      <<"example.co.il">>,
      <<"shop.other.co.il", "WWW.example.co.il", "*.www.example.co.il">>,
      <<"www.blocked.co.il", "blocked.co.il", "x.gov.il">> }

\* two issuances: the second carries the earlier not_before
EventA(names) == Event(Val(CertUpdate), Val(Cert(Val(names), Val(20), Val("01"))),
                       Chain("R3"), SeenIn("Argon"))

EventB(names) == Event(Val(CertUpdate), Val(Cert(Val(names), Val(10), Val("02"))),
                       Chain("E1"), SeenIn("Xenon"))

WellFormedEvents == {EventA(n) : n \in DomainLists} \cup {EventB(n) : n \in DomainLists}

TargetNames == <<"www.example.co.il">>

\* certificate_update events with one optional field absent, null or empty
MalformedEvents ==
    LET names == Val(TargetNames)
        leaf == Val(Cert(names, Val(20), Val("01")))
    IN  { Event(Val(CertUpdate), leaf, c, SeenIn("Argon")) : c \in {Absent, Null, Val(<<>>)} }
        \cup
        { Event(Val(CertUpdate), leaf, Chain("R3"), s) : s \in {Absent, Null, Val(<<>>)} }
        \cup
        { Event(Val(CertUpdate), Val(Cert(names, Val(20), x)), Chain("R3"), SeenIn("Argon")) :
              x \in {Absent, Null, Val("")} }
        \cup
        { Event(Val(CertUpdate), Val(Cert(names, x, Val("01"))), Chain("R3"), SeenIn("Argon")) :
              x \in {Absent, Null} }
        \cup
        { Event(Val(CertUpdate), Val(Cert(x, Val(20), Val("01"))), Chain("R3"), SeenIn("Argon")) :
              x \in {Absent, Null, Val(<<>>)} }
        \cup
        { Event(Val(CertUpdate), x, Chain("R3"), SeenIn("Argon")) : x \in {Absent, Null} }

\* events that are not certificate updates, with and without certificate content
OtherEvents ==
    { [message_type |-> Val("heartbeat"), data |-> Absent],
      [message_type |-> Absent, data |-> Null],
      Event(Val("heartbeat"), Val(Cert(Val(TargetNames), Val(20), Val("01"))),
            Chain("R3"), SeenIn("Argon")),
      Event(Val("heartbeat"), Null, Null, Null) }

Events == WellFormedEvents \cup MalformedEvents \cup OtherEvents

\* readings of the wall clock (datetime.utcnow)
Clock == {50, 60}

(***************************************************************************)
(* Bounds of the model                                                     *)
(***************************************************************************)
\* events delivered to one pipeline
MaxEvents == 2

(***************************************************************************)
(* State                                                                   *)
(***************************************************************************)
\* The ingestion pipelines writing to the collection.  __main__ starts the
\* monitor thread and then runs Flask with debug=True, whose reloader runs
\* the script again in a child process while the parent's thread goes on.
Pipelines == {"parent", "child"}

VARIABLES
    config,      \* CertMonitor's configuration
    collection,  \* the MongoDB collection: a set of documents
    next_id,     \* the _id the next inserted document gets
    pc,          \* where each pipeline's monitor thread is
    formatted,   \* process_certificate's data (the result of _format_message)
    todo,        \* the items of valid_domains still to save, first one current
    existing,    \* save_domain's existing (the result of find_one)
    outcome,     \* what the last save_domain of the current event did
    error,       \* the exception propagating out of process_certificate
    conn,        \* each pipeline's MongoClient: "open" or "closed"
    exit_code,   \* "running", or the exit code of the program
    delivered,   \* events delivered to each pipeline so far
    response,    \* the response GET /api/domains sent in the step just taken
    acked,       \* <<domain, subdomain>> of every save_domain that returned True
    hist,        \* the last event processed, with the collection before it
    written,     \* what each update_one and insert_one that succeeded wrote
                 \* (two-pipeline scenario)
    call         \* the function applied in the step just taken, with its result

vars == <<config, collection, next_id, pc, formatted, todo, existing, outcome, error,
          conn, exit_code, delivered, response, acked, hist, written, call>>

NoData == [time_issued |-> 0, issuer_cn |-> "", log_name |-> "", cert_id |-> ""]

NoHist == [on |-> FALSE]

NoResponse == [status |-> 0]

NoCall == [fn |-> "none"]

InitProgram ==
    /\ config \in Configs
    /\ collection = {}
    /\ next_id = 1
    /\ pc = [p \in Pipelines |-> "listening"]
    /\ formatted = [p \in Pipelines |-> NoData]
    /\ todo = [p \in Pipelines |-> <<>>]
    /\ existing = [p \in Pipelines |-> Null]
    /\ outcome = [p \in Pipelines |-> "none"]
    /\ error = [p \in Pipelines |-> "none"]
    /\ conn = [p \in Pipelines |-> "open"]
    /\ exit_code = "running"
    /\ delivered = [p \in Pipelines |-> 0]
    /\ response = NoResponse
    /\ acked = {}
    /\ written = {}
    /\ call = NoCall

Init == InitProgram /\ hist = NoHist

(***************************************************************************)
(* The store: a collection with a unique index on domain                   *)
(***************************************************************************)
ToSet(list) == Range(list)

\* list(a_set): the members once each, in an order Python does not specify
Enumerations(S) == {s \in [1..Cardinality(S) -> S] : Range(s) = S}

Matching(coll, domain) == {doc \in coll : doc.domain = domain}

\* the collection without its unique index: no insert is refused
no_unique_index(coll, domain) == FALSE

\* create_index([("domain", ASCENDING)], unique=True): an insert of a key the
\* collection holds is refused with DuplicateKeyError
unique_index(coll, domain) == Matching(coll, domain) # {}

\* the document save_domain builds for insert_one
NewDocument(id, domain, subdomains, meta, now) ==
    [_id |-> id,
     domain |-> domain,
     subdomains |-> subdomains,
     time_issued |-> meta.time_issued,
     issuer_cn |-> meta.issuer_cn,
     log_name |-> meta.log_name,
     cert_id |-> meta.cert_id,
     last_seen |-> now]

\* symmetric_difference where union was meant
new_subdomains_xor(existing_subdomains, subdomains) ==
    (ToSet(existing_subdomains) \ ToSet(subdomains))
        \cup (ToSet(subdomains) \ ToSet(existing_subdomains))

\* new_subdomains = existing_subdomains.union(set(subdomains))
new_subdomains(existing_subdomains, subdomains) ==
    ToSet(existing_subdomains) \cup ToSet(subdomains)

\* the values one call of update_one or insert_one carries for a record: its
\* key, its subdomains as a set, the four metadata fields
Write(domain, subdomains, meta) ==
    [domain |-> domain,
     subdomains |-> subdomains,
     time_issued |-> meta.time_issued,
     issuer_cn |-> meta.issuer_cn,
     log_name |-> meta.log_name,
     cert_id |-> meta.cert_id]

\* a $set of the subdomains alone, the metadata left for a second update
SetSubdomainsOnly(doc, subdomains, meta, now) ==
    [doc EXCEPT !.subdomains = subdomains, !.last_seen = now]

\* a $set that keeps the later of the two time_issued values
SetFieldsLatestIssued(doc, subdomains, meta, now) ==
    [doc EXCEPT !.subdomains = subdomains,
                !.time_issued = IF meta.time_issued > @ THEN meta.time_issued ELSE @,
                !.issuer_cn = meta.issuer_cn,
                !.log_name = meta.log_name,
                !.cert_id = meta.cert_id,
                !.last_seen = now]

\* update_one's $set on the document it matched
SetFields(doc, subdomains, meta, now) ==
    [doc EXCEPT !.subdomains = subdomains,
                !.time_issued = meta.time_issued,
                !.issuer_cn = meta.issuer_cn,
                !.log_name = meta.log_name,
                !.cert_id = meta.cert_id,
                !.last_seen = now]

(***************************************************************************)
(* The history of the sequential scenario (one pipeline): the event being  *)
(* processed, the collection it started from, whether every save_domain of *)
(* it returned True, and whether it repeats the event processed before it. *)
(***************************************************************************)
StartHist == [on |-> TRUE, any |-> FALSE, names |-> <<>>, batch |-> <<>>, meta |-> NoData,
              before |-> {}, ok |-> FALSE, repeat |-> FALSE]

HistDeliver(h, names, batch, meta, coll) ==
    IF ~h.on THEN h
    ELSE [on |-> TRUE, any |-> TRUE, names |-> names, batch |-> batch, meta |-> meta,
          before |-> coll, ok |-> TRUE,
          repeat |-> h.any /\ h.ok /\ h.batch = batch /\ h.meta = meta]

HistFailed(h) == IF ~h.on THEN h ELSE [h EXCEPT !.ok = FALSE]

HistDropped(h) == IF ~h.on THEN h ELSE StartHist

(***************************************************************************)
(* CertMonitor.process_certificate, one ingestion pipeline p               *)
(***************************************************************************)
\* only heartbeats are skipped
IsNotHeartbeat(message) == message.message_type # Val("heartbeat")

\* message.get('message_type') == "certificate_update"
IsCertificateUpdate(message) == message.message_type = Val(CertUpdate)

\* where the save loop goes once the current item is done
AfterItem(rest) == IF rest = <<>> THEN "listening" ELSE "find"

\* process_certificate up to its save loop: the callback returns at once
\* ("ignored"), an exception leaves it ("raised"), or valid_domains is built
Processed(cfg, message, now) ==
    IF ~IsCertificateUpdate(message) THEN [k |-> "ignored"]
    ELSE LET fm == _format_message(message, now)
         IN  IF fm.raised THEN [k |-> "raised", exc |-> fm.exc]
             ELSE IF fm.domain_names.k = "null"
             THEN \* for raw_domain in None
                  [k |-> "raised", exc |-> "TypeError"]
             ELSE [k |-> "valid",
                   names |-> fm.domain_names.v,
                   valid |-> valid_domains(cfg, fm.domain_names.v),
                   meta |-> [time_issued |-> fm.time_issued,
                             issuer_cn |-> fm.issuer_cn,
                             log_name |-> fm.log_name,
                             cert_id |-> fm.cert_id]]

\* Processed, tabulated over the inputs of the model
ProcessedTable ==
    [cfg \in Configs, message \in Events, now \in Clock |-> Processed(cfg, message, now)]

\* the ingestion source calls process_certificate(message, context)
Deliver(p, message, now) ==
    /\ exit_code = "running"
    /\ pc[p] = "listening"
    /\ delivered[p] < MaxEvents
    /\ delivered' = [delivered EXCEPT ![p] = @ + 1]
    /\ response' = NoResponse
    /\ UNCHANGED <<config, call, written, collection, next_id, existing, conn, exit_code, acked>>
    /\ LET r == ProcessedTable[config, message, now]
       IN  CASE r.k = "ignored" ->
                    /\ outcome' = [outcome EXCEPT ![p] = "ignored"]
                    /\ hist' = HistDropped(hist)
                    /\ UNCHANGED <<pc, formatted, todo, error>>
             [] r.k = "raised" ->
                    /\ pc' = [pc EXCEPT ![p] = "raised"]
                    /\ error' = [error EXCEPT ![p] = r.exc]
                    /\ outcome' = [outcome EXCEPT ![p] = "none"]
                    /\ hist' = HistDropped(hist)
                    /\ UNCHANGED <<formatted, todo>>
             [] r.k = "valid" ->
                    /\ formatted' = [formatted EXCEPT ![p] = r.meta]
                    /\ todo' = [todo EXCEPT ![p] = r.valid]
                    /\ pc' = [pc EXCEPT ![p] = AfterItem(r.valid)]
                    /\ outcome' = [outcome EXCEPT ![p] = "none"]
                    /\ hist' = HistDeliver(hist, r.names, r.valid, r.meta, collection)
                    /\ UNCHANGED error

(***************************************************************************)
(* DBManager.save_domain, called for the first item of todo[p]             *)
(***************************************************************************)
\* existing = self.collection.find_one({"domain": domain})
FindOne(p) ==
    /\ exit_code = "running"
    /\ pc[p] = "find"
    /\ LET found == Matching(collection, Head(todo[p]).base)
       IN  \/ /\ found = {}
              /\ existing' = [existing EXCEPT ![p] = Null]
           \/ \E doc \in found : existing' = [existing EXCEPT ![p] = Val(doc)]
    /\ pc' = [pc EXCEPT ![p] = "write"]
    /\ response' = NoResponse
    /\ UNCHANGED <<config, call, written, collection, next_id, formatted, todo, outcome, error, conn, exit_code, delivered, acked, hist>>

\* the writes that succeeded, kept where two pipelines run (the sequential
\* scenario keeps its history in hist)
Written(w) == IF hist.on THEN written ELSE written \cup {w}

\* save_domain returned True: the caller's loop goes on
Returned(p, item) ==
    /\ outcome' = [outcome EXCEPT ![p] = "True"]
    /\ acked' = acked \cup {<<item.base, s>> : s \in ToSet(item.subdomains)}
    /\ todo' = [todo EXCEPT ![p] = Tail(@)]
    /\ pc' = [pc EXCEPT ![p] = AfterItem(Tail(todo[p]))]
    /\ existing' = [existing EXCEPT ![p] = Null]
    /\ UNCHANGED <<error, hist>>

\* were it not caught: the exception leaves save_domain and process_certificate
NotCaught(p, exc) ==
    /\ pc' = [pc EXCEPT ![p] = "raised"]
    /\ error' = [error EXCEPT ![p] = exc]
    /\ hist' = HistFailed(hist)
    /\ UNCHANGED <<outcome, todo, existing, acked>>

\* the except of save_domain caught exc and returned False, and the except of
\* the caller's loop had nothing to catch: the loop goes on
Caught(p, exc) ==
    /\ outcome' = [outcome EXCEPT ![p] = exc]
    /\ todo' = [todo EXCEPT ![p] = Tail(@)]
    /\ pc' = [pc EXCEPT ![p] = AfterItem(Tail(todo[p]))]
    /\ existing' = [existing EXCEPT ![p] = Null]
    /\ hist' = HistFailed(hist)
    /\ UNCHANGED <<error, acked>>

\* self.collection.update_one({"domain": domain}, {"$set": {...}})
UpdateOne(p, now) ==
    /\ exit_code = "running"
    /\ pc[p] = "write"
    /\ existing[p].k = "val"
    /\ LET item == Head(todo[p])
           merged == new_subdomains(existing[p].v.subdomains, item.subdomains)
           found == Matching(collection, item.base)
       IN  /\ \E list \in Enumerations(merged) :
                 \/ /\ found = {}
                    /\ collection' = collection
                 \/ \E doc \in found :
                       collection' = (collection \ {doc})
                                        \cup {SetFields(doc, list, formatted[p], now)}
           /\ written' = Written(Write(item.base, merged, formatted[p]))
           /\ Returned(p, item)
    /\ response' = NoResponse
    /\ UNCHANGED <<config, call, next_id, formatted, conn, exit_code, delivered>>

\* self.collection.insert_one(document)
InsertOne(p, now) ==
    /\ exit_code = "running"
    /\ pc[p] = "write"
    /\ existing[p].k = "null"
    /\ LET item == Head(todo[p])
       IN  IF unique_index(collection, item.base)
           THEN /\ Caught(p, "DuplicateKeyError")
                /\ UNCHANGED <<collection, next_id, written>>
           ELSE /\ \E list \in Enumerations(ToSet(item.subdomains)) :
                      collection' = collection
                          \cup {NewDocument(next_id, item.base, list, formatted[p], now)}
                /\ next_id' = next_id + 1
                /\ written' = Written(Write(item.base, ToSet(item.subdomains),
                                            formatted[p]))
                /\ Returned(p, item)
    /\ response' = NoResponse
    /\ UNCHANGED <<config, call, formatted, conn, exit_code, delivered>>

\* find_one, update_one or insert_one raises (the store is unreachable, a
\* timeout): nothing is written
StoreFails(p) ==
    /\ exit_code = "running"
    /\ pc[p] \in {"find", "write"}
    /\ Caught(p, "PyMongoError")
    /\ response' = NoResponse
    /\ UNCHANGED <<config, call, written, collection, next_id, formatted, conn, exit_code, delivered>>

(***************************************************************************)
(* CertMonitor.start and __main__                                          *)
(***************************************************************************)
\* sys.exit(code) called on the monitor thread, which is not the main thread:
\* SystemExit ends that thread, and the program's exit code stays as it is
sys_exit(code, current) == current

\* The exception of the callback reaches the ingestion library, which is not
\* part of this repository: it either drops the event and goes on listening,
\* or lets listen_for_events raise (ListenFails).
ListenerContinues(p) ==
    /\ exit_code = "running"
    /\ pc[p] = "raised"
    /\ pc' = [pc EXCEPT ![p] = "listening"]
    /\ error' = [error EXCEPT ![p] = "none"]
    /\ todo' = [todo EXCEPT ![p] = <<>>]
    /\ existing' = [existing EXCEPT ![p] = Null]
    /\ response' = NoResponse
    /\ UNCHANGED <<config, call, written, collection, next_id, formatted, outcome, conn, exit_code, delivered, acked, hist>>

\* listen_for_events raises: start() closes the connection and calls sys.exit(1)
ListenFails(p) ==
    /\ exit_code = "running"
    /\ pc[p] \in {"listening", "raised"}
    /\ conn' = [conn EXCEPT ![p] = "closed"]
    /\ exit_code' = sys_exit("1", exit_code)
    /\ pc' = [pc EXCEPT ![p] = "ended"]
    /\ response' = NoResponse
    /\ UNCHANGED <<config, call, written, collection, next_id, formatted, todo, existing, outcome, error, delivered, acked, hist>>

\* The operator interrupts the program: KeyboardInterrupt is raised on the main
\* thread, api.run returns, the program exits with code 0 and its daemon
\* monitor threads end where they are.
Shutdown ==
    /\ exit_code = "running"
    /\ exit_code' = "0"
    /\ pc' = [p \in Pipelines |-> IF pc[p] = "ended" THEN "ended" ELSE "killed"]
    /\ response' = NoResponse
    /\ UNCHANGED <<config, call, written, collection, next_id, formatted, todo, existing, outcome, error, conn, delivered, acked, hist>>

(***************************************************************************)
(* DBManager.get_all_domains and the GET /api/domains handler              *)
(***************************************************************************)
\* datetime.isoformat()
IsoFormat(t) == [isoformat |-> t]

\* the document as the scan returns it ({"_id": 0}) with its datetimes converted
Rendered(doc) ==
    [domain |-> doc.domain,
     subdomains |-> doc.subdomains,
     time_issued |-> IsoFormat(doc.time_issued),
     issuer_cn |-> doc.issuer_cn,
     log_name |-> doc.log_name,
     cert_id |-> doc.cert_id,
     last_seen |-> IsoFormat(doc.last_seen)]

\* find({}, {"_id": 0}).sort("time_issued", -1): the order of equal keys is
\* the store's choice
SortedScans(coll) ==
    {s \in Enumerations(coll) :
        \A i, j \in DOMAIN s : i < j => s[i].time_issued >= s[j].time_issued}

\* what get_all_domains returns, as the value json.loads gives back
get_all_domains(scan) ==
    IF scan.failed
    THEN [kind |-> "object", error |-> scan.exc]
    ELSE [kind |-> "list", items |-> [i \in DOMAIN scan.docs |-> Rendered(scan.docs[i])]]

\* len(domains)
PyLen(domains) == IF domains.kind = "list" THEN Len(domains.items) ELSE 1

\* get_domains: get_all_domains did not raise, so the 200 branch answers
get_domains(scan) ==
    LET domains == get_all_domains(scan)
    IN  [status |-> 200, success |-> TRUE, count |-> PyLen(domains), data |-> domains]

GetDomains ==
    /\ exit_code = "running"
    /\ \/ \E s \in SortedScans(collection) :
             response' = get_domains([failed |-> FALSE, docs |-> s])
       \/ response' = get_domains([failed |-> TRUE, exc |-> "PyMongoError"])
    /\ UNCHANGED <<config, call, written, collection, next_id, pc, formatted, todo, existing, outcome,
                   error, conn, exit_code, delivered, acked, hist>>

(***************************************************************************)
(* Specifications                                                          *)
(***************************************************************************)
\* the steps of pipeline p when the ingestion source delivers from `source`
PipelineStep(p, source) ==
    \/ \E message \in source, now \in Clock : Deliver(p, message, now)
    \/ FindOne(p)
    \/ \E now \in Clock : UpdateOne(p, now)
    \/ \E now \in Clock : InsertOne(p, now)
    \/ StoreFails(p)
    \/ ListenerContinues(p)
    \/ ListenFails(p)

\* the events delivered while both pipelines run
RaceEvents ==
    { EventA(<<"www.example.co.il">>),
      EventB(<<"*.mail.example.co.il", "example.co.il", "evil-example.co.il.attacker.com">>),
      Event(Val(CertUpdate), Val(Cert(Val(TargetNames), Val(20), Val("01"))),
            Chain("R3"), Val(<<>>)),
      [message_type |-> Val("heartbeat"), data |-> Absent] }

Next ==
    \/ \E p \in Pipelines : PipelineStep(p, RaceEvents)
    \/ Shutdown
    \/ GetDomains

\* the program: two ingestion pipelines, the read service, the operator
Spec == Init /\ [][Next]_vars

InitSeq == InitProgram /\ hist = StartHist

NextSeq ==
    \/ PipelineStep("parent", Events)
    \/ Shutdown
    \/ GetDomains

\* one ingestion pipeline alone, every event of the model, with its history
SeqSpec == InitSeq /\ [][NextSeq]_vars

(***************************************************************************)
(* The functions of CertMonitor on their own: one call per step, for every *)
(* configuration and argument below                                        *)
(***************************************************************************)
\* configurations: the two of the program, the suffixes in the other order,
\* a name both excluded and blacklisted, a suffix written without its dot
FilterConfigs ==
    Configs \cup
    { [israeli_tld_suffixes |-> <<".il", ".co.il">>,
       exclude_suffixes |-> <<>>,
       blacklisted_domains |-> <<>>],
      [israeli_tld_suffixes |-> <<".co.il">>,
       exclude_suffixes |-> <<"gov", "test">>,
       blacklisted_domains |-> <<"gov.co.il", "x.co.il">>],
      [israeli_tld_suffixes |-> <<"a.co.il", ".il">>,
       exclude_suffixes |-> <<>>,
       blacklisted_domains |-> <<"co.il">>] }

\* cleaned names
CleanNames ==
    { "www.example.co.il", "example.co.il", "mail.www.example.co.il",
      "blocked.co.il", "www.blocked.co.il", "x.gov.il", "gov.co.il", "mygov.co.il",
      "x.co.il", "test.x.co.il", "a.co.il", "b.a.co.il", "co.il", ".co.il", "il", "",
      "example.com", "evil-example.co.il.attacker.com", "example.org.il" }

\* the variables of the running program, which a call on its own leaves alone
program == <<config, collection, next_id, pc, formatted, todo, existing, outcome, error,
             conn, exit_code, delivered, response, acked, hist, written>>

Call_is_target_domain(cfg, name) ==
    /\ call' = [fn |-> "_is_target_domain", cfg |-> cfg, arg |-> name,
                result |-> _is_target_domain(cfg, name)]
    /\ UNCHANGED program

Call_extract_base_domain(cfg, name) ==
    /\ call' = [fn |-> "_extract_base_domain", cfg |-> cfg, arg |-> name,
                result |-> _extract_base_domain(cfg, name)]
    /\ UNCHANGED program

\* raw not_before values: missing, zero, seconds of one to ten digits, the
\* largest value of the model's integers, negative values
NotBefores ==
    {Absent, Null} \cup
    {Val(n) : n \in {0, 5, 20, 999999999, 1700000000, 2147483647, -5, -1000000000}}

Call_format_message(not_before, now) ==
    /\ call' = [fn |-> "_format_message", arg |-> not_before, now |-> now,
                result |-> _format_message(
                    Event(Val(CertUpdate), Val(Cert(Val(TargetNames), not_before, Val("01"))),
                          Chain("R3"), SeenIn("Argon")), now)]
    /\ UNCHANGED program

\* raw names as certificates carry them: wildcards, upper case, whitespace
RawNameLists ==
    { <<"*.mail.example.co.il", "example.co.il">>,
      <<"WWW.Example.CO.IL">>,
      <<"  www.example.co.il\t">>,
      <<"*.Shop.example.co.il ", "www.other.co.il">>,
      <<" *.y.co.il ">>,
      <<"**.x.co.il">>,
      <<"*.*.x.co.il">> }

\* the filter loop of process_certificate: the batch its save loop stores
Call_valid_domains(cfg, names) ==
    /\ call' = [fn |-> "valid_domains", cfg |-> cfg, arg |-> names,
                result |-> valid_domains(cfg, names)]
    /\ UNCHANGED program

NextFn ==
    \/ \E cfg \in FilterConfigs, names \in RawNameLists : Call_valid_domains(cfg, names)
    \/ \E not_before \in NotBefores, now \in Clock : Call_format_message(not_before, now)
    \/ \E cfg \in FilterConfigs, name \in CleanNames : Call_is_target_domain(cfg, name)
    \/ \E cfg \in FilterConfigs, name \in CleanNames : Call_extract_base_domain(cfg, name)

\* the functions applied to every input of the model
FnSpec == Init /\ [][NextFn]_vars

(***************************************************************************)
(* Properties                                                              *)
(***************************************************************************)
\* a record as the claims read it: its key, its subdomain set, its metadata
Stored(doc) ==
    [domain |-> doc.domain,
     subdomains |-> ToSet(doc.subdomains),
     time_issued |-> doc.time_issued,
     issuer_cn |-> doc.issuer_cn,
     log_name |-> doc.log_name,
     cert_id |-> doc.cert_id]

StoredAll(coll) == {Stored(doc) : doc \in coll}

\* the pipeline of the sequential scenario has processed its event to the end
SeqDone == hist.on /\ hist.any /\ pc["parent"] = "listening"

\* C1: every subdomain passed to a save_domain that returned True is in the
\* record of its base domain, also when two merges of one base domain
\* interleave their find_one and update_one.
C1_NoLostUpdates ==
    \A a \in acked :
        \E doc \in collection : doc.domain = a[1] /\ a[2] \in ToSet(doc.subdomains)

\* C2: no step removes a member from the subdomain set of a record.
C2_MonotonicSubdomains ==
    [][\A doc \in collection :
          \E after \in collection' :
              /\ after._id = doc._id
              /\ ToSet(doc.subdomains) \subseteq ToSet(after.subdomains)]_vars

\* C3: the collection never holds two records with the same domain.
C3_UniqueKey ==
    \A a, b \in collection : a.domain = b.domain => a = b

\* an insert_one was refused: two merges found no record and both inserted
C3_Witness ==
    \E p \in Pipelines :
        /\ outcome[p] = "DuplicateKeyError"
        /\ Cardinality(collection) >= 1

\* C4: an event that repeats the one merged just before it (same batch, same
\* metadata) leaves every record as it was apart from last_seen, and the
\* records of its base domains carry its metadata.
C4_IdempotentMerge ==
    (SeqDone /\ hist.repeat /\ hist.ok) =>
        /\ StoredAll(collection) = StoredAll(hist.before)
        /\ \A i \in DOMAIN hist.batch :
              \E doc \in collection :
                  /\ doc.domain = hist.batch[i].base
                  /\ doc.time_issued = hist.meta.time_issued
                  /\ doc.issuer_cn = hist.meta.issuer_cn
                  /\ doc.log_name = hist.meta.log_name
                  /\ doc.cert_id = hist.meta.cert_id

C4_Witness ==
    /\ SeqDone /\ hist.repeat /\ hist.ok
    /\ \E i \in DOMAIN hist.batch : hist.batch[i].subdomains # <<>>

StoreErrors == {"PyMongoError", "DuplicateKeyError"}

\* C5: a store failure in save_domain never leaves process_certificate, and
\* the step in which it happens moves the save loop to the next base domain
\* of the event (or to the next event) without writing.
C5_FailureIsolation ==
    [][\A p \in Pipelines :
          /\ error'[p] \notin StoreErrors
          /\ (pc[p] \in {"find", "write"} /\ outcome'[p] \in StoreErrors
                  /\ todo'[p] # todo[p])
             => /\ todo'[p] = Tail(todo[p])
                /\ pc'[p] = AfterItem(todo'[p])
                /\ collection' = collection]_vars

\* the first base domain of a two-domain event failed and the second was saved
C5_Witness ==
    /\ SeqDone /\ ~hist.ok
    /\ hist.before = {}
    /\ Len(hist.batch) = 2
    /\ outcome["parent"] = "True"
    /\ {doc.domain : doc \in collection} = {hist.batch[2].base}

\* C6: a response with status 200 and success carries the list of records; a
\* failed scan is answered with status 500 and success false.
C6_ReadFailureResponse ==
    response # NoResponse =>
        IF response.data.kind = "list"
        THEN response.status = 200 /\ response.success
        ELSE response.status = 500 /\ ~response.success

\* C7: no certificate_update event with an optional field absent, null or
\* empty makes process_certificate raise.
C7_MalformedTolerated ==
    \A p \in Pipelines : pc[p] # "raised"

\* C8: once start() has handled the failure of listen_for_events, the program
\* has exit code 1.
C8_FatalExit ==
    \A p \in Pipelines : pc[p] = "ended" => exit_code = "1"

\* the events process_certificate ignores, whatever else they carry
NonCertificateEvents == {message \in Events : message.message_type # Val(CertUpdate)}

\* C9: the delivery of an event whose message_type is not certificate_update
\* changes no record, starts no save and raises nothing.
C9_NonCertificate ==
    [][\A p \in Pipelines, message \in NonCertificateEvents, now \in Clock :
          Deliver(p, message, now)
             => /\ collection' = collection
                /\ pc' = pc
                /\ todo' = todo
                /\ error' = error
                /\ existing' = existing]_vars

C9_Witness ==
    /\ outcome["parent"] = "ignored"
    /\ delivered["parent"] > 0

\* the names of a certificate that pass the filter, cleaned
Passing(cfg, names) ==
    {c \in {_clean_domain(names[i]) : i \in DOMAIN names} : _is_target_domain(cfg, c)}

\* the records an event creates on an empty index, as domain and subdomain set
Expected(cfg, names) ==
    { [domain |-> b,
       subdomains |-> {c \in Passing(cfg, names) :
                          _extract_base_domain(cfg, c) = b /\ c # b}] :
          b \in {_extract_base_domain(cfg, c) : c \in Passing(cfg, names)} }

KeyAndSubdomains(coll) ==
    {[domain |-> doc.domain, subdomains |-> ToSet(doc.subdomains)] : doc \in coll}

ExampleNames ==
    <<"*.mail.example.co.il", "example.co.il", "evil-example.co.il.attacker.com">>

ExampleConfig ==
    [israeli_tld_suffixes |-> <<".co.il">>,
     exclude_suffixes |-> <<>>,
     blacklisted_domains |-> <<>>]

\* C10: an event processed on an empty index, every save succeeding, leaves
\* exactly one record per base domain of its passing names, holding the
\* passing names other than the base; the example of the specification gives
\* the one record example.co.il with {mail.example.co.il}.
C10_EndToEnd ==
    (SeqDone /\ hist.ok /\ hist.before = {}) =>
        /\ KeyAndSubdomains(collection) = Expected(config, hist.names)
        /\ Cardinality(collection) = Cardinality(Expected(config, hist.names))
        /\ (config = ExampleConfig /\ hist.names = ExampleNames) =>
              KeyAndSubdomains(collection) =
                  {[domain |-> "example.co.il", subdomains |-> {"mail.example.co.il"}]}

C10_Witness ==
    /\ SeqDone /\ hist.ok /\ hist.before = {}
    /\ config = ExampleConfig
    /\ hist.names = ExampleNames
    /\ Cardinality(collection) = 1

\* the four metadata fields of a record
MetaOf(doc) ==
    [time_issued |-> doc.time_issued,
     issuer_cn |-> doc.issuer_cn,
     log_name |-> doc.log_name,
     cert_id |-> doc.cert_id]

\* an event has been processed to the end and gave no subdomain to save
NoSubdomains ==
    /\ SeqDone /\ hist.ok
    /\ \A i \in DOMAIN hist.batch : hist.batch[i].subdomains = <<>>

\* the event just processed named, among its target names, only base domain b
ApexOnly(b) ==
    /\ NoSubdomains
    /\ Passing(config, hist.names) = {b}
    /\ _extract_base_domain(config, b) = b

\* C11: an event whose only target name is its own base domain is merged: a
\* record of that domain exists afterwards with the event's metadata; it has
\* no subdomains when the event created it, and the subdomain set it had
\* before when the event updated it.
C11_ApexOnly ==
    NoSubdomains =>
      \A b \in Passing(config, hist.names) :
        ApexOnly(b) =>
            /\ Cardinality(Matching(collection, b)) = 1
            /\ \A doc \in Matching(collection, b) :
                  /\ MetaOf(doc) = hist.meta
                  /\ IF Matching(hist.before, b) = {}
                     THEN doc.subdomains = <<>>
                     ELSE \E old \in Matching(hist.before, b) :
                              ToSet(doc.subdomains) = ToSet(old.subdomains)

\* the apex-only event updated a record that held subdomains and other metadata
C11_Witness ==
    /\ NoSubdomains
    /\ \E b \in Passing(config, hist.names) :
        /\ ApexOnly(b)
        /\ \E old \in Matching(hist.before, b) :
              /\ old.subdomains # <<>>
              /\ MetaOf(old) # hist.meta

\* the name ends with one of the configured suffixes
HasSuffix(cfg, name) ==
    \E suffix \in Range(cfg.israeli_tld_suffixes) : EndsWith(name, suffix)

\* the name holds one of the excluded substrings at some position
HasExcluded(cfg, name) ==
    \E excluded \in Range(cfg.exclude_suffixes) :
        \E i \in 1..(Len(name) + 1) :
            /\ i + Len(excluded) - 1 <= Len(name)
            /\ SubSeq(name, i, i + Len(excluded) - 1) = excluded

\* C12: _is_target_domain returns true exactly when the name ends with a
\* configured suffix, holds no excluded substring and equals no blacklist
\* entry; a name with a suffix and an excluded substring is rejected, and so
\* is a name equal to a blacklist entry.
C12_FilterDecision ==
    call.fn = "_is_target_domain" =>
        LET blacklisted == call.arg \in Range(call.cfg.blacklisted_domains)
        IN  /\ call.result = (/\ HasSuffix(call.cfg, call.arg)
                              /\ ~HasExcluded(call.cfg, call.arg)
                              /\ ~blacklisted)
            /\ (HasSuffix(call.cfg, call.arg) /\ HasExcluded(call.cfg, call.arg))
                  => ~call.result
            /\ blacklisted => ~call.result

\* a name with a configured suffix, not on the blacklist, rejected for the
\* excluded substring in the middle of it
C12_Witness ==
    /\ call.fn = "_is_target_domain"
    /\ HasSuffix(call.cfg, call.arg)
    /\ HasExcluded(call.cfg, call.arg)
    /\ ~\E excluded \in Range(call.cfg.exclude_suffixes) : EndsWith(call.arg, excluded)
    /\ call.arg \notin Range(call.cfg.blacklisted_domains)
    /\ ~call.result

\* the positions of the dots of a name, and the number of its labels
DotPositions(name) == {i \in 1..Len(name) : CharAt(name, i) = "."}

NumLabels(name) == Cardinality(DotPositions(name)) + 1

\* the last k labels of a name that has more than k: what follows the k-th dot
\* from the end
LastLabels(name, k) ==
    IF NumLabels(name) <= k THEN name
    ELSE LET cut == CHOOSE i \in DotPositions(name) :
                        Cardinality({j \in DotPositions(name) : j >= i}) = k
         IN  SubSeq(name, cut + 1, Len(name))

\* the places in the configuration of the suffixes the name ends with
SuffixHits(cfg, name) ==
    {i \in DOMAIN cfg.israeli_tld_suffixes : EndsWith(name, cfg.israeli_tld_suffixes[i])}

\* the first configured suffix the name ends with
FirstSuffix(cfg, name) ==
    cfg.israeli_tld_suffixes[CHOOSE i \in SuffixHits(cfg, name) :
                                 \A j \in SuffixHits(cfg, name) : i <= j]

\* C13: _extract_base_domain returns the name unchanged when it ends with no
\* configured suffix; otherwise, with k the number of labels of the first
\* configured suffix it ends with plus one, a name of at least k labels gives
\* its last k labels joined by dots.
C13_BaseDomain ==
    call.fn = "_extract_base_domain" =>
        IF SuffixHits(call.cfg, call.arg) = {}
        THEN call.result = call.arg
        ELSE LET k == NumLabels(LStripDots(FirstSuffix(call.cfg, call.arg))) + 1
             IN  NumLabels(call.arg) >= k => call.result = LastLabels(call.arg, k)

\* the name ends with two configured suffixes, the first one is the shorter,
\* and the base domain is cut by the first
C13_Witness ==
    /\ call.fn = "_extract_base_domain"
    /\ \E i \in SuffixHits(call.cfg, call.arg) :
          Len(call.cfg.israeli_tld_suffixes[i]) > Len(FirstSuffix(call.cfg, call.arg))
    /\ call.result # call.arg
    /\ call.result = LastLabels(call.arg,
                                NumLabels(LStripDots(FirstSuffix(call.cfg, call.arg))) + 1)

\* C14: the step in which a save_domain returns True leaves the record of its
\* base domain with the metadata of the event being processed, whatever the
\* record held before.
C14_LastWriterWins ==
    [][\A p \in Pipelines :
          (pc[p] = "write" /\ outcome'[p] = "True" /\ todo'[p] # todo[p])
             => \E doc \in collection' :
                    /\ doc.domain = Head(todo[p]).base
                    /\ doc.time_issued = formatted[p].time_issued
                    /\ doc.issuer_cn = formatted[p].issuer_cn
                    /\ doc.log_name = formatted[p].log_name
                    /\ doc.cert_id = formatted[p].cert_id]_vars

\* an event merged into a record that held a later time_issued: it regressed
C14_Witness ==
    /\ SeqDone /\ hist.ok
    /\ \E old \in hist.before, doc \in collection :
          /\ doc.domain = old.domain
          /\ doc.time_issued < old.time_issued
          /\ MetaOf(doc) = hist.meta
          /\ doc.cert_id # old.cert_id

\* the number of decimal digits of an integer
DecimalDigits(n) == IF n < 0 THEN StrLenNat(0 - n) ELSE StrLenNat(n)

\* C15: _format_message takes a not_before of more than ten decimal digits as
\* milliseconds and any other as seconds, takes the wall clock when the value
\* is missing, and does not raise.
C15_TimestampUnit ==
    call.fn = "_format_message" =>
        /\ ~call.result.raised
        /\ call.result.time_issued =
              IF call.arg.k # "val" THEN call.now
              ELSE IF DecimalDigits(call.arg.v) > 10 THEN call.arg.v \div 1000
              ELSE call.arg.v

\* C16: when the program has exited with code 0, no pipeline was stopped with
\* base domains of its event still to merge.
C16_ShutdownOrdering ==
    exit_code = "0" => \A p \in Pipelines : todo[p] = <<>>

\* C17: no record has a domain key or a subdomain that is an entry of the
\* configured blacklist.
C17_BlacklistNeverStored ==
    \A doc \in collection :
        /\ doc.domain \notin Range(config.blacklisted_domains)
        /\ ToSet(doc.subdomains) \cap Range(config.blacklisted_domains) = {}

\* the names of the certificates of the model, cleaned
CleanedEventNames == {_clean_domain(n) : n \in UNION {Range(names) : names \in DomainLists}}

\* the filter's decision and the base domain of each of them
NameTable ==
    [cfg \in Configs, name \in CleanedEventNames |->
        [target |-> _is_target_domain(cfg, name),
         base |-> _extract_base_domain(cfg, name)]]

\* C18: every subdomain of a record differs from the record's domain, ends
\* with a dot and that domain, passed the filter and has that domain as its
\* base domain; no subdomain is listed twice.
C18_SubdomainsBelong ==
    \A doc \in collection :
        /\ Len(doc.subdomains) = Cardinality(ToSet(doc.subdomains))
        /\ \A sub \in ToSet(doc.subdomains) :
              /\ sub # doc.domain
              /\ EndsWith(sub, "." \o doc.domain)
              /\ NameTable[config, sub].target
              /\ NameTable[config, sub].base = doc.domain

\* a record holding two subdomains, one of them named twice by the event that
\* gave it (in upper case and as a wildcard)
C18_Witness ==
    /\ SeqDone /\ hist.ok
    /\ \E i \in DOMAIN hist.batch :
          /\ Len(hist.batch[i].subdomains) > Cardinality(ToSet(hist.batch[i].subdomains))
          /\ \E doc \in collection :
                /\ doc.domain = hist.batch[i].base
                /\ Cardinality(ToSet(doc.subdomains)) >= 2

\* a record of a response as the write that made it
ReadAsWrite(item) ==
    [domain |-> item.domain,
     subdomains |-> ToSet(item.subdomains),
     time_issued |-> item.time_issued.isoformat,
     issuer_cn |-> item.issuer_cn,
     log_name |-> item.log_name,
     cert_id |-> item.cert_id]

\* C19: every record a read returns has the subdomain set and the metadata of
\* one write that succeeded, and the step of a read leaves the collection
\* as it was.
C19_WholeMerges ==
    /\ [](response # NoResponse /\ response.data.kind = "list"
            => \A i \in DOMAIN response.data.items :
                   ReadAsWrite(response.data.items[i]) \in written)
    /\ [][response' # NoResponse => collection' = collection]_vars

\* a read answered while a merge into the record it returns is between its
\* find_one and its update_one, the record having been written twice before
C19_Witness ==
    /\ response # NoResponse
    /\ response.data.kind = "list"
    /\ \E p \in Pipelines, i \in DOMAIN response.data.items :
          /\ pc[p] = "write"
          /\ existing[p].k = "val"
          /\ response.data.items[i].domain = Head(todo[p]).base
          /\ Cardinality({w \in written : w.domain = Head(todo[p]).base}) >= 2

\* the names process_certificate passes to save_domain for a batch
BatchNames(batch) ==
    {batch[i].base : i \in DOMAIN batch}
        \cup UNION {ToSet(batch[i].subdomains) : i \in DOMAIN batch}

\* C20: every name of the batch stored for a certificate has no leading
\* wildcard label, no surrounding whitespace and no upper-case letter, and
\* cleaning it again returns it unchanged.
C20_StoredNamesClean ==
    call.fn = "valid_domains" =>
        \A name \in BatchNames(call.result) :
            /\ ~StartsWith(name, "*.")
            /\ Strip(name) = name
            /\ Lower(name) = name
            /\ _clean_domain(name) = name

=============================================================================
